---- MODULE Spec2Model ----
(***************************************************************************)
(* Model of cvloop (src/cvloop/cvloop.py): the playback controller that    *)
(* reads frames from a capture, passes them through the user function and  *)
(* hands them to the matplotlib figure, paced by the animation timer and   *)
(* reacting to the figure's pause_event and close_event; and of the        *)
(* example functions of src/cvloop/functions.py.                           *)
(*                                                                         *)
(* The frame source is a finite stream: `frames` frames, then read()       *)
(* returns ret = False for good.  A frame is identified by its zero-based  *)
(* position in that stream.                                                *)
(***************************************************************************)
EXTENDS Integers, Sequences, FiniteSets, TLC

\* Largest number of frames a source holds.
MaxFrames == 3
\* Largest number of host events (timer ticks, pause events, close events).
MaxEvents == 6
\* Largest number of annotations passed to __init__.
MaxAnnotations == 2
\* Height and width of the image given to DrawHat.
FrameSide == 3
\* Largest width of a detected face.
MaxFaceWidth == 2
\* Largest number of faces in an image.
MaxFaces == 2
\* Largest |x_offset| and |y_offset| of a DrawHat.
MaxOffset == 3
\* Largest number of channels of an image given to to_gray.
MaxChannels == 4

VARIABLES
    pc,             \* "init" before cvloop.__init__ has run, "loop" after
    capture,        \* self.capture, the frame source and what happened to it
    print_info_opt, \* the print_info argument of __init__
    frame_offset,   \* self.frame_offset
    frame_seq,      \* next value of self.frame_seq (itertools.count)
    event_source,   \* self.event_source._timer: "None" or "Timer"
    sink,           \* what the figure was given, in order
    error,          \* exception that left a handler, "none" if none did
    probed,         \* frames taken from the source by __init__
    events,         \* host events handled so far, with their outcome
    args,           \* the other arguments of __init__
    annotations,    \* self.annotations (<<>> for None)
    annotation_artists, \* self.annotation_artists, the shapes on the axes
    cmap_original,  \* self.cmap_original
    cmap_processed, \* self.cmap_processed
    drawhat,        \* a DrawHat of functions.py and its call
    imgcall         \* is_color_image and to_gray, or an Inverter, on an image

playback == <<pc, capture, print_info_opt, frame_offset, frame_seq,
              event_source, sink, error, probed, events, args, annotations,
              annotation_artists, cmap_original, cmap_processed>>

vars == <<pc, capture, print_info_opt, frame_offset, frame_seq, event_source,
          sink, error, probed, events, args, annotations, annotation_artists,
          cmap_original, cmap_processed, drawhat, imgcall>>

None == "None"
\* cv2.COLOR_BGR2RGB, and the value of convert_color that means no conversion.
COLOR_BGR2RGB == 4
NoConversion == 0 - 1
\* read_frame's None result, and the absent frame of a failed read.
NoFrame == 0 - 1

----------------------------------------------------------------------------
(* Frames.  A frame has the numpy shape (height, width) or (height, width, *)
(* channels); px holds the samples of one pixel, scale the factor by which *)
(* they are multiplied (1 for raw samples, 1000 after the luma weights).   *)
FrameShapes == {<<2, 2>>, <<2, 2, 1>>, <<2, 2, 2>>, <<2, 2, 3>>, <<2, 2, 4>>}
ColorShape == <<2, 2, 3>>

Channels(shape) == IF Len(shape) < 3 THEN 1 ELSE shape[3]

NoneFrame == [id |-> NoFrame, shape |-> <<>>, px |-> <<>>, scale |-> 1]

SourceFrame(id, shape) ==
    [id |-> id, shape |-> shape,
     px |-> [c \in 1..Channels(shape) |-> 10 * c + id], scale |-> 1]

(* is_color_image: len(frame.shape) >= 3 and frame.shape[2] >= 3           *)
is_color_image_any3d(frame) == Len(frame.shape) >= 3

is_color_image(frame) == Len(frame.shape) >= 3 /\ frame.shape[3] >= 3

(* to_gray: a frame that is not a color image is returned as it is; else   *)
(* np.dot(frame[..., :3], [.299, .587, .114]), which drops the last axis.  *)
to_gray_always(frame) ==
    [frame EXCEPT
        !.shape = SubSeq(frame.shape, 1, 2),
        !.px = <<299 * frame.px[1] + 587 * frame.px[1] + 114 * frame.px[1]>>,
        !.scale = frame.scale * 1000]

to_gray(frame) ==
    IF ~is_color_image(frame)
    THEN frame
    ELSE [frame EXCEPT
            !.shape = SubSeq(frame.shape, 1, Len(frame.shape) - 1),
            !.px = <<299 * frame.px[1] + 587 * frame.px[2]
                     + 114 * frame.px[3]>>,
            !.scale = frame.scale * 1000]

(* cv2.cvtColor(frame, cv2.COLOR_BGR2RGB): three channels, B and R swapped.*)
cvtColor(frame) ==
    [frame EXCEPT
        !.shape = <<frame.shape[1], frame.shape[2], 3>>,
        !.px = <<frame.px[3], frame.px[2], frame.px[1]>>]

----------------------------------------------------------------------------
(* The source argument of __init__.  A source the controller opens itself  *)
(* (source is None, a device number or a file name) is a cv2.VideoCapture, *)
(* which has release and get.  A supplied source is any object with a read *)
(* method; release and get are optional.  All frames of a source have the  *)
(* same shape.                                                             *)
Captures ==
    { [owned |-> o, hasRelease |-> r, hasGet |-> g, frames |-> n,
       shape |-> s,
       pos |-> 0, reads |-> 0, released |-> FALSE, releases |-> 0] :
        o \in BOOLEAN, r \in BOOLEAN, g \in BOOLEAN, n \in 0..MaxFrames,
        s \in FrameShapes }

source_arg == { c \in Captures : c.owned => (c.hasRelease /\ c.hasGet) }

(* capture.read(): the next frame while there is one and the capture is    *)
(* open, otherwise ret = False (a released cv2.VideoCapture reads nothing).*)
capture_read(c) ==
    IF ~c.released /\ c.pos < c.frames
    THEN [ret |-> TRUE, frame |-> SourceFrame(c.pos, c.shape),
          cap |-> [c EXCEPT !.pos = @ + 1, !.reads = @ + 1]]
    ELSE [ret |-> FALSE, frame |-> NoneFrame,
          cap |-> [c EXCEPT !.reads = @ + 1]]

(* capture.release(): raises AttributeError when there is no such method.  *)
capture_release(c) ==
    IF c.hasRelease
    THEN [raised |-> "none",
          cap |-> [c EXCEPT !.released = TRUE, !.releases = @ + 1]]
    ELSE [raised |-> "AttributeError", cap |-> c]

(* try: self.capture.release() / except AttributeError: pass               *)
release_uncaught(c) == capture_release(c)

try_release(c) ==
    LET r == capture_release(c)
    IN  [raised |-> IF r.raised = "AttributeError" THEN "none" ELSE r.raised,
         cap |-> r.cap]

----------------------------------------------------------------------------
(* print_info: counts one frame and reads it, whether or not it is there.  *)
print_info(c, off) ==
    LET r == capture_read(c)
    IN  [cap |-> r.cap, frame_offset |-> off + 1]

(* determine_size: asks get when the capture has it, else counts and reads *)
(* one frame.                                                              *)
determine_size_uncounted(c, off) ==
    IF c.hasGet
    THEN [cap |-> c, frame_offset |-> off]
    ELSE [cap |-> capture_read(c).cap, frame_offset |-> off]

determine_size(c, off) ==
    IF c.hasGet
    THEN [cap |-> c, frame_offset |-> off]
    ELSE [cap |-> capture_read(c).cap, frame_offset |-> off + 1]

(* new_frame_seq: itertools.count(self.frame_offset); the first value.     *)
new_frame_seq_zero(off) == 0

new_frame_seq(off) == off

(* evt_toggle_pause: start the timer if there is none, else stop it.       *)
evt_toggle_pause_stop(es) == None

evt_toggle_pause_start(es) == "Timer"

evt_toggle_pause(es) == IF es = None THEN "Timer" ELSE None

(* evt_release: best-effort release, nothing else.                         *)
evt_release(c) == try_release(c)

(* read_frame: on ret = False stop the timer, release, return None; else   *)
(* the frame, color converted unless convert_color is -1.                  *)
read_frame_running(c, es, convert_color) ==
    LET r == capture_read(c)
    IN  IF ~r.ret
        THEN LET rel == try_release(r.cap)
             IN  [frame |-> NoneFrame, acquired |-> NoneFrame, obj |-> None,
                  cap |-> rel.cap, event_source |-> es,
                  raised |-> rel.raised]
        ELSE LET convert == /\ convert_color # NoConversion
                            /\ is_color_image(r.frame)
             IN  [frame |-> IF convert THEN cvtColor(r.frame) ELSE r.frame,
                  acquired |-> r.frame,
                  obj |-> IF convert THEN "converted" ELSE "acquired",
                  cap |-> r.cap, event_source |-> es, raised |-> "none"]

read_frame(c, es, convert_color) ==
    LET r == capture_read(c)
    IN  IF ~r.ret
        THEN LET rel == try_release(r.cap)
             IN  [frame |-> NoneFrame, acquired |-> NoneFrame, obj |-> None,
                  cap |-> rel.cap, event_source |-> None,
                  raised |-> rel.raised]
        ELSE LET convert == /\ convert_color # NoConversion
                            /\ is_color_image(r.frame)
             IN  [frame |-> IF convert THEN cvtColor(r.frame) ELSE r.frame,
                  acquired |-> r.frame,
                  obj |-> IF convert THEN "converted" ELSE "acquired",
                  cap |-> r.cap, event_source |-> es, raised |-> "none"]

----------------------------------------------------------------------------
(* The function argument: what it returns for a frame (the frame itself,   *)
(* a 2-D image of its first channel, a 3-channel image of it, or the frame *)
(* itself after inverting it in place) and the frames on which it raises.  *)
Functions(ids) ==
    { [kind |-> k, raises |-> r] :
        k \in {"identity", "to2d", "to3ch", "inplace"}, r \in SUBSET ids }

Identity == [kind |-> "identity", raises |-> {}]

Apply(function, frame) ==
    CASE function.kind = "identity" -> frame
      [] function.kind = "to2d" ->
            [frame EXCEPT !.shape = SubSeq(frame.shape, 1, 2),
                          !.px = <<frame.px[1]>>]
      [] function.kind = "to3ch" ->
            [frame EXCEPT !.shape = <<frame.shape[1], frame.shape[2], 3>>,
                          !.px = <<frame.px[1], frame.px[1], frame.px[1]>>]
      [] function.kind = "inplace" ->
            [frame EXCEPT !.px = [c \in DOMAIN frame.px |-> 255 - frame.px[c]]]

(* What the call leaves in the array it was given.                         *)
Mutated(function, frame) ==
    IF function.kind = "inplace" THEN Apply(function, frame) ELSE frame

(* process_frame: return self.function(frame); what it raises is raised.   *)
process_frame(function, frame) ==
    IF frame.id \in function.raises
    THEN [raised |-> "TransformError", frame |-> frame]
    ELSE [raised |-> "none", frame |-> Apply(function, frame)]

----------------------------------------------------------------------------
(* Annotations.  An option value is a scalar, a tuple or a string (both    *)
(* with __len__), or absent; v holds its numbers (for a color string the   *)
(* RGB triple it names).                                                   *)
Val(kind, v) == [kind |-> kind, v |-> v]
Absent == Val("absent", <<>>)
NoLine == 0 - 1
HasLen(val) == val.kind \in {"tuple", "str"}

annotations_default ==
    [shape |-> "RECT", color |-> Val("str", <<34, 139, 34>>),
     line |-> 2, size |-> Val("tuple", <<20, 20>>)]

Unbound ==
    [shape |-> "unbound", xy |-> <<>>, size |-> <<>>, ec |-> Absent, lw |-> 0]

Rectangle(pos, size, line, color) ==
    [shape |-> "RECT",
     xy |-> <<pos[1] - (size.v[1] \div 2), pos[2] - (size.v[2] \div 2)>>,
     size |-> size.v, ec |-> color, lw |-> line]

CirclePolygon(pos, size, line, color) ==
    [shape |-> "CIRC", xy |-> pos, size |-> size.v, ec |-> color, lw |-> line]

(* sorted(annotations, key=lambda a: a[2]): stable, ascending.             *)
RECURSIVE insert_sorted(_, _)
insert_sorted(seq, a) ==
    IF seq = <<>> THEN <<a>>
    ELSE IF seq[Len(seq)].frame <= a.frame THEN Append(seq, a)
    ELSE Append(insert_sorted(SubSeq(seq, 1, Len(seq) - 1), a), seq[Len(seq)])

RECURSIVE sorted(_)
unsorted(seq) == seq

sorted(seq) ==
    IF seq = <<>> THEN <<>>
    ELSE insert_sorted(sorted(SubSeq(seq, 1, Len(seq) - 1)), seq[Len(seq)])

(* if not hasattr(color, '__len__'): color = (color,) * 3                  *)
color_asis(color) == color

color_triple(color) ==
    IF ~HasLen(color)
    THEN Val("tuple", <<color.v[1], color.v[1], color.v[1]>>)
    ELSE color

(* The body of annotate's loop from annotation i on.  patch is the local   *)
(* variable of that name: Unbound until a RECT or CIRC has been built.     *)
RECURSIVE annotate_from(_, _, _, _, _, _)
annotate_from(anns, i, frame_no, default, artists, patch) ==
    IF i > Len(anns) THEN [artists |-> artists, raised |-> "none"]
    ELSE IF anns[i].frame > frame_no
    THEN [artists |-> artists, raised |-> "none"]
    ELSE IF anns[i].frame # frame_no
    THEN annotate_from(anns, i + 1, frame_no, default, artists, patch)
    ELSE
      LET a == anns[i]
          pos == <<a.x, a.y>>
          shape == IF a.has_opts /\ a.shape # "absent"
                   THEN a.shape ELSE default.shape
          color0 == IF a.has_opts /\ a.color # Absent
                    THEN a.color ELSE default.color
          size0 == IF a.has_opts /\ a.size # Absent
                   THEN a.size ELSE default.size
          line == IF a.has_opts /\ a.line # NoLine
                  THEN a.line ELSE default.line
          size == IF shape = "CIRC" /\ HasLen(size0)
                  THEN Val("scalar", <<30>>) ELSE size0
          color == color_triple(color0)
      IN  IF shape = "RECT" /\ ~HasLen(size)
          THEN [artists |-> artists, raised |-> "TypeError"]
          ELSE LET p == IF shape = "RECT"
                        THEN Rectangle(pos, size, line, color)
                        ELSE IF shape = "CIRC"
                        THEN CirclePolygon(pos, size, line, color)
                        ELSE patch
               IN  IF p = Unbound
                   THEN [artists |-> artists, raised |-> "UnboundLocalError"]
                   ELSE annotate_from(anns, i + 1, frame_no, default,
                                      Append(artists, p), p)

(* annotate: remove the artists of the last call, then draw this frame's.  *)
annotate_keep(anns, frame_no, default, artists) ==
    annotate_from(anns, 1, frame_no, default, artists, Unbound)

annotate(anns, frame_no, default, artists) ==
    annotate_from(anns, 1, frame_no, default, <<>>, Unbound)

----------------------------------------------------------------------------
(* The cmaps argument: None, one name for both images, or a tuple with an  *)
(* entry (a name or None) per image.                                       *)
CmapNames == {None, "jet"}
CmapArgs ==
    {[kind |-> "none", v |-> <<>>]}
    \cup {[kind |-> "str", v |-> <<"jet">>]}
    \cup {[kind |-> "tuple", v |-> <<a>>] : a \in CmapNames}
    \cup {[kind |-> "tuple", v |-> <<a, b>>] : a \in CmapNames, b \in CmapNames}

(* cmaps if isinstance(cmaps, str) else cmaps[k], None on IndexError or    *)
(* TypeError.                                                              *)
cmap_arg(cmaps, k) ==
    IF cmaps.kind = "str" THEN cmaps.v[1]
    ELSE IF cmaps.kind = "tuple" /\ k + 1 <= Len(cmaps.v) THEN cmaps.v[k + 1]
    ELSE None

(* The colormap decision of _draw_frame for one image: with a colormap    *)
(* to_gray; without one, set_cmap('gray') if it is no color image.         *)
show_image_guess(frame, cmap) ==
    IF ~is_color_image(frame)
    THEN [frame |-> frame, set_cmap |-> "gray"]
    ELSE [frame |-> frame, set_cmap |-> None]

show_image(frame, cmap) ==
    IF cmap # None
    THEN [frame |-> to_gray(frame), set_cmap |-> None]
    ELSE IF ~is_color_image(frame)
    THEN [frame |-> frame, set_cmap |-> "gray"]
    ELSE [frame |-> frame, set_cmap |-> None]

NotShown == [frame |-> NoneFrame, set_cmap |-> None]

(* What the figure receives: a frame with its index, or the status         *)
(* 'Finished.' with the index of the tick that found the stream exhausted. *)
(* "aborted" is a draw that an exception in annotate cut short.  acquired  *)
(* is the array capture.read() returned, as the draw leaves it.            *)
FrameOut(type, no, original, acquired, processed, shown_o, shown_p, art) ==
    [type |-> type, frame_no |-> no, acquired |-> acquired,
     original |-> original.id, processed |-> processed.id,
     read |-> original, returned |-> processed,
     shown_original |-> shown_o.frame, set_cmap_original |-> shown_o.set_cmap,
     shown_processed |-> shown_p.frame,
     set_cmap_processed |-> shown_p.set_cmap,
     artists |-> art]

FinishedOut(frame_no, artists) ==
    FrameOut("status", frame_no, NoneFrame, NoneFrame, NoneFrame, NotShown,
             NotShown, artists)

(* _draw_frame: read; nothing left: status 'Finished.'; else process (a    *)
(* copy of the frame in the side-by-side view, the frame itself otherwise),*)
(* choose the colormaps, annotate and show.  An exception leaving          *)
(* read_frame, process_frame or annotate leaves _draw_frame as well.       *)
_draw_frame(c, es, out, frame_no, a, anns, artists, cmo, cmp) ==
    LET rf == read_frame(c, es, a.convert_color)
        state(o, ar, raised) ==
            [cap |-> rf.cap, event_source |-> rf.event_source, sink |-> o,
             annotation_artists |-> ar, raised |-> raised]
    IN  IF rf.raised # "none" THEN state(out, artists, rf.raised)
        ELSE IF rf.frame.id = NoFrame
        THEN state(Append(out, FinishedOut(frame_no, artists)), artists,
                   "none")
        ELSE
          LET given == IF a.side_by_side THEN "copy" ELSE rf.obj
              pf == process_frame(a.function, rf.frame)
              acquired == IF given = "acquired" /\ pf.raised = "none"
                          THEN Mutated(a.function, rf.acquired)
                          ELSE rf.acquired
              shown_o == IF a.side_by_side THEN show_image(rf.frame, cmo)
                         ELSE NotShown
              shown_p == show_image(pf.frame, cmp)
              an == IF anns # <<>>
                    THEN annotate(anns, frame_no, a.annotations_default,
                                  artists)
                    ELSE [artists |-> artists, raised |-> "none"]
          IN  IF pf.raised # "none" THEN state(out, artists, pf.raised)
              ELSE IF an.raised # "none"
              THEN state(Append(out, FrameOut("aborted", frame_no, rf.frame,
                                              acquired, pf.frame, shown_o,
                                              [frame |-> NoneFrame,
                                               set_cmap |-> shown_p.set_cmap],
                                              an.artists)),
                         an.artists, an.raised)
              ELSE state(Append(out, FrameOut("frame", frame_no, rf.frame,
                                              acquired, pf.frame, shown_o,
                                              shown_p,
                                              an.artists)),
                         an.artists, "none")

----------------------------------------------------------------------------
Frames(out) == SelectSeq(out, LAMBDA e : e.type = "frame")
Statuses(out) == SelectSeq(out, LAMBDA e : e.type = "status")

Logged(evt, es, out, c) ==
    Append(events, [evt |-> evt, timer |-> es, sent |-> Len(Frames(out)),
                    reads |-> c.reads, eos |-> Len(Statuses(out))])

DefaultArgs ==
    [function |-> Identity, side_by_side |-> FALSE,
     convert_color |-> COLOR_BGR2RGB, cmaps |-> [kind |-> "none", v |-> <<>>],
     annotations |-> <<>>, annotations_default |-> annotations_default]

Fresh ==
    /\ pc = "init"
    /\ frame_offset = 0
    /\ frame_seq = 0
    /\ event_source = None
    /\ sink = <<>>
    /\ error = "none"
    /\ probed = 0
    /\ events = <<>>
    /\ annotations = <<>>
    /\ annotation_artists = <<>>
    /\ cmap_original = None
    /\ cmap_processed = None

(* No DrawHat is in use.                                                   *)
NoDrawHat ==
    drawhat = [pc |-> "none"]

(* is_color_image, to_gray and Inverter are not called on their own.       *)
NoImageCall ==
    imgcall = [pc |-> "none"]

(* cvloop(source, print_info=...): color frames, everything else default.  *)
Init ==
    /\ Fresh
    /\ capture \in {c \in source_arg : c.shape = ColorShape}
    /\ print_info_opt \in BOOLEAN
    /\ args = DefaultArgs
    /\ NoDrawHat
    /\ NoImageCall

(* cvloop.__init__ up to the first draw, which starts the timer.           *)
Construct ==
    /\ pc = "init"
    /\ LET p == IF print_info_opt THEN print_info(capture, frame_offset)
                ELSE [cap |-> capture, frame_offset |-> frame_offset]
           d == determine_size(p.cap, p.frame_offset)
       IN  /\ capture' = d.cap
           /\ frame_offset' = d.frame_offset
           /\ frame_seq' = new_frame_seq(d.frame_offset)
           /\ probed' = d.cap.pos
    /\ annotations' = sorted(args.annotations)
    /\ annotation_artists' = <<>>
    /\ cmap_original' = cmap_arg(args.cmaps, 0)
    /\ cmap_processed' = cmap_arg(args.cmaps, 1)
    /\ event_source' = "Timer"
    /\ pc' = "loop"
    /\ UNCHANGED <<print_info_opt, sink, error, events, args, drawhat,
                   imgcall>>

(* One timer tick: the animation takes the next index and draws.           *)
Tick ==
    /\ pc = "loop"
    /\ event_source = "Timer"
    /\ Len(events) < MaxEvents
    /\ LET d == _draw_frame(capture, event_source, sink, frame_seq, args,
                            annotations, annotation_artists, cmap_original,
                            cmap_processed)
       IN  /\ capture' = d.cap
           /\ event_source' = d.event_source
           /\ sink' = d.sink
           /\ annotation_artists' = d.annotation_artists
           /\ error' = IF d.raised # "none" THEN d.raised ELSE error
           /\ events' = Logged("tick", d.event_source, d.sink, d.cap)
    /\ frame_seq' = frame_seq + 1
    /\ UNCHANGED <<pc, print_info_opt, frame_offset, probed, args,
                   annotations, cmap_original, cmap_processed, drawhat,
                   imgcall>>

(* pause_event                                                             *)
PauseEvent ==
    /\ pc = "loop"
    /\ Len(events) < MaxEvents
    /\ event_source' = evt_toggle_pause(event_source)
    /\ events' = Logged("pause", event_source', sink, capture)
    /\ UNCHANGED <<pc, capture, print_info_opt, frame_offset, frame_seq,
                   sink, error, probed, args, annotations,
                   annotation_artists, cmap_original, cmap_processed,
                   drawhat,
                   imgcall>>

(* close_event                                                             *)
CloseEvent ==
    /\ pc = "loop"
    /\ Len(events) < MaxEvents
    /\ LET r == evt_release(capture)
       IN  /\ capture' = r.cap
           /\ error' = IF r.raised # "none" THEN r.raised ELSE error
           /\ events' = Logged("close", event_source, sink, r.cap)
    /\ UNCHANGED <<pc, print_info_opt, frame_offset, frame_seq, event_source,
                   sink, probed, args, annotations, annotation_artists,
                   cmap_original, cmap_processed, drawhat,
                   imgcall>>

Next == Construct \/ Tick \/ PauseEvent \/ CloseEvent

Spec == Init /\ [][Next]_vars

(* cvloop(source, function, side_by_side=...) with a function that raises  *)
(* on at most one frame of the source.                                    *)
InitTransform ==
    /\ Fresh
    /\ capture \in {c \in source_arg : c.shape = ColorShape}
    /\ print_info_opt \in BOOLEAN
    /\ args \in {[DefaultArgs EXCEPT !.function = f, !.side_by_side = s] :
                    f \in {g \in Functions(0..(MaxFrames - 1)) :
                              g.kind = "identity" /\ Cardinality(g.raises) <= 1},
                    s \in BOOLEAN}
    /\ NoDrawHat
    /\ NoImageCall

SpecTransform == InitTransform /\ [][Next]_vars

(* The annotations argument: [x, y, frame] or [x, y, frame, options].  The *)
(* x of an annotation is ten times its place in the list.  The shape 'TRI' *)
(* is none of the documented ones.                                         *)
AnnotationOptions ==
    { [has_opts |-> FALSE, shape |-> "absent", color |-> Absent,
       size |-> Absent, line |-> NoLine],
      [has_opts |-> TRUE, shape |-> "CIRC", color |-> Val("scalar", <<128>>),
       size |-> Val("scalar", <<7>>), line |-> NoLine],
      [has_opts |-> TRUE, shape |-> "RECT",
       color |-> Val("tuple", <<255, 0, 0>>),
       size |-> Val("tuple", <<4, 6>>), line |-> 1],
      [has_opts |-> TRUE, shape |-> "TRI", color |-> Absent,
       size |-> Absent, line |-> NoLine] }

Annotation(i, frame, o) ==
    [x |-> 10 * i, y |-> 5, frame |-> frame, has_opts |-> o.has_opts,
     shape |-> o.shape, color |-> o.color, size |-> o.size, line |-> o.line]

(* The annotations_default argument: the default of __init__, or the same *)
(* with a gray value as color.                                             *)
AnnotationDefaults ==
    {annotations_default,
     [annotations_default EXCEPT !.color = Val("scalar", <<64>>)]}

AnnotationLists ==
    UNION { { [i \in 1..n |-> Annotation(i, fr[i], op[i])] :
                fr \in [1..n -> 0..(MaxFrames - 1)],
                op \in [1..n -> AnnotationOptions] } :
            n \in 0..MaxAnnotations }

(* cvloop(source, annotations=...) on a full source, played to its end     *)
(* without pause or close events.                                          *)
InitAnnotate ==
    /\ Fresh
    /\ capture \in {c \in source_arg : /\ c.shape = ColorShape
                                       /\ c.frames = MaxFrames
                                       /\ c.owned}
    /\ print_info_opt \in BOOLEAN
    /\ args \in {[DefaultArgs EXCEPT !.annotations = l,
                                     !.annotations_default = d] :
                    l \in AnnotationLists, d \in AnnotationDefaults}
    /\ NoDrawHat
    /\ NoImageCall

NextPlay == Construct \/ Tick

SpecAnnotate == InitAnnotate /\ [][NextPlay]_vars

(* cvloop(source, function, side_by_side=..., convert_color=...,           *)
(* cmaps=...) on a full source of frames of any shape, played to its end.  *)
InitColor ==
    /\ Fresh
    /\ capture \in {c \in source_arg : c.frames = MaxFrames /\ c.owned}
    /\ print_info_opt = FALSE
    /\ args \in {[DefaultArgs EXCEPT !.function = f, !.side_by_side = s,
                                     !.convert_color = cc, !.cmaps = cm] :
                    f \in Functions({}), s \in BOOLEAN,
                    cc \in {NoConversion, COLOR_BGR2RGB}, cm \in CmapArgs}
    /\ NoDrawHat
    /\ NoImageCall

SpecColor == InitColor /\ [][NextPlay]_vars

----------------------------------------------------------------------------
(* DrawHat (functions.py).  The image is FrameSide x FrameSide; each of    *)
(* its pixels keeps the list of hat pixels blended onto it, as             *)
(* <<face, hat row, hat column>>, so that what was written where is        *)
(* visible.  draw_box is left at its default, False.                       *)
Pixels == (0..(FrameSide - 1)) \X (0..(FrameSide - 1))
CleanImage == [p \in Pixels |-> <<>>]

(* Faces as detectMultiScale returns them: squares, here those in the      *)
(* corners of the image.                                                   *)
FaceBoxes ==
    { f \in { [x |-> x, y |-> y, w |-> w, h |-> w] :
                x \in 0..(FrameSide - 1), y \in 0..(FrameSide - 1),
                w \in 1..MaxFaceWidth } :
        f.x \in {0, FrameSide - f.w} /\ f.y \in {0, FrameSide - f.h} }

FaceLists == UNION { [1..n -> FaceBoxes] : n \in 0..MaxFaces }

(* The arguments of DrawHat.__init__: whether hat_path can be read, the    *)
(* shape of the hat image (height, width), w_offset in tenths (default     *)
(* 1.3), x_offset and y_offset.                                            *)
HatArgs ==
    { [readable |-> r, template |-> t, w_offset |-> wo, x_offset |-> xo,
       y_offset |-> yo] :
        r \in BOOLEAN, t \in {<<1, 1>>, <<2, 1>>, <<3, 2>>},
        wo \in {13, 20},
        xo \in {0 - MaxOffset, 0, MaxOffset},
        yo \in {0 - MaxOffset, 0, 1, MaxOffset} }

Abs(v) == IF v < 0 THEN 0 - v ELSE v

(* load_hat: cv2.imread gives None for a file it cannot read; then         *)
(* ValueError.                                                             *)
load_hat_unchecked(a) == [raised |-> "none"]

load_hat(a) ==
    IF ~a.readable THEN [raised |-> "ValueError"] ELSE [raised |-> "none"]

(* a[lo:hi] on an axis of length n: the indices it selects.                *)
SliceBound(i, n) ==
    IF i < 0 THEN (IF i + n < 0 THEN 0 ELSE i + n)
    ELSE (IF i > n THEN n ELSE i)

Slice(lo, hi, n) ==
    LET a == SliceBound(lo, n)
        b == SliceBound(hi, n)
    IN  [k \in 1..(IF b > a THEN b - a ELSE 0) |-> a + k - 1]

(* Lines 202-203: the hat is resized to the face width times w_offset,   *)
(* keeping the proportions of the hat image; int() truncates.              *)
hat_size_rounded(face, a) ==
    LET hat_width == (2 * face.w * a.w_offset + 10) \div 20
    IN  [hat_width |-> hat_width,
         hat_height |-> (2 * hat_width * a.template[1] + a.template[2])
                            \div (2 * a.template[2])]

hat_size(face, a) ==
    LET hat_width == (face.w * a.w_offset) \div 10
    IN  [hat_width |-> hat_width,
         hat_height |-> (hat_width * a.template[1]) \div a.template[2]]

(* Lines 211 and 219: where the hat's top left corner goes.                *)
hat_origin_below(face, a, hat_height) ==
    [y0 |-> face.y + a.y_offset, x0 |-> face.x + a.x_offset]

hat_origin(face, a, hat_height) ==
    [y0 |-> face.y - hat_height + a.y_offset, x0 |-> face.x + a.x_offset]

(* Lines 207-218 for rows (hat_top, hat_bottom, y0, y1) and lines 207-226  *)
(* for columns (hat_left, hat_right, x0, x1): clip one axis.  d0r is the   *)
(* start as computed, hat_len the hat's extent, frame_len the image's.     *)
clip_axis_uncropped(d0r, hat_len, frame_len) ==
    LET d0 == IF d0r < 0 THEN 0 ELSE d0r
        d1r == d0 + hat_len
    IN  [lo |-> 0,
         hi |-> IF d1r > frame_len THEN hat_len - (d1r - frame_len)
                ELSE hat_len,
         d0 |-> d0,
         d1 |-> IF d1r > frame_len THEN frame_len ELSE d1r]

clip_axis_open(d0r, hat_len, frame_len) ==
    LET lo == IF d0r < 0 THEN Abs(d0r) ELSE 0
        d0 == IF d0r < 0 THEN 0 ELSE d0r
    IN  [lo |-> lo, hi |-> hat_len, d0 |-> d0, d1 |-> d0 + hat_len - lo]

clip_axis(d0r, hat_len, frame_len) ==
    LET lo == IF d0r < 0 THEN Abs(d0r) ELSE 0
        d0 == IF d0r < 0 THEN 0 ELSE d0r
        d1r == d0 + hat_len - lo
    IN  [lo |-> lo,
         hi |-> IF d1r > frame_len THEN hat_len - (d1r - frame_len)
                ELSE hat_len,
         d0 |-> d0,
         d1 |-> IF d1r > frame_len THEN frame_len ELSE d1r]

(* Lines 201-226 of __call__: hat size and clipping, with the names of the *)
(* local variables.                                                        *)
clip_hat(face, a, frame_height, frame_width) ==
    LET size == hat_size(face, a)
        o == hat_origin(face, a, size.hat_height)
        rows == clip_axis(o.y0, size.hat_height, frame_height)
        cols == clip_axis(o.x0, size.hat_width, frame_width)
    IN  [hat_width |-> size.hat_width, hat_height |-> size.hat_height,
         hat_left |-> cols.lo, hat_top |-> rows.lo,
         hat_bottom |-> rows.hi, hat_right |-> cols.hi,
         y0 |-> rows.d0, y1 |-> rows.d1, x0 |-> cols.d0, x1 |-> cols.d1]

(* Lines 229-235: image[y0:y1, x0:x1] = hat slice blended with the image   *)
(* slice, under numpy's slicing and broadcasting: the hat slice must have  *)
(* the extent of the image slice, or extent 1, along each axis; else       *)
(* ValueError and nothing is written.                                      *)
blend(image, k, c, hat_height, hat_width) ==
    LET hrows == Slice(c.hat_top, c.hat_bottom, hat_height)
        hcols == Slice(c.hat_left, c.hat_right, hat_width)
        irows == Slice(c.y0, c.y1, FrameSide)
        icols == Slice(c.x0, c.x1, FrameSide)
        fits(hn, in) == hn = in \/ hn = 1
        at(hs, is, v) ==
            LET i == CHOOSE j \in 1..Len(is) : is[j] = v
            IN  IF Len(hs) = 1 THEN hs[1] ELSE hs[i]
        inside(p) == /\ \E i \in 1..Len(irows) : irows[i] = p[1]
                     /\ \E j \in 1..Len(icols) : icols[j] = p[2]
    IN  IF ~(fits(Len(hrows), Len(irows)) /\ fits(Len(hcols), Len(icols)))
        THEN [image |-> image, raised |-> "ValueError"]
        ELSE IF Len(hrows) = 0 \/ Len(hcols) = 0
        THEN [image |-> image, raised |-> "none"]
        ELSE [image |-> [p \in Pixels |->
                           IF inside(p)
                           THEN Append(image[p],
                                       <<k, at(hrows, irows, p[1]),
                                         at(hcols, icols, p[2])>>)
                           ELSE image[p]],
              raised |-> "none"]

(* The loop of __call__ from face k on; cv2.resize refuses an empty size.  *)
(* done counts the faces whose hat was blended, hats lists the values of   *)
(* the loop's local variables for each face whose hat was resized.         *)
RECURSIVE call_from(_, _, _, _)
call_from(image, faces, k, a) ==
    IF k > Len(faces)
    THEN [image |-> image, raised |-> "none", done |-> k - 1, hats |-> <<>>]
    ELSE
      LET c == clip_hat(faces[k], a, FrameSide, FrameSide)
      IN  IF c.hat_width <= 0 \/ c.hat_height <= 0
          THEN [image |-> image, raised |-> "cv2.error", done |-> k - 1,
                hats |-> <<>>]
          ELSE LET b == blend(image, k, c, c.hat_height, c.hat_width)
               IN  IF b.raised # "none"
                   THEN [image |-> image, raised |-> b.raised,
                         done |-> k - 1, hats |-> <<c>>]
                   ELSE LET r == call_from(b.image, faces, k + 1, a)
                        IN  [r EXCEPT !.hats = <<c>> \o r.hats]

(* The playback variables while only a DrawHat is looked at.               *)
NoPlayback ==
    /\ Fresh
    /\ capture = [owned |-> TRUE, hasRelease |-> TRUE, hasGet |-> TRUE,
                  frames |-> 0, shape |-> ColorShape, pos |-> 0, reads |-> 0,
                  released |-> FALSE, releases |-> 0]
    /\ print_info_opt = FALSE
    /\ args = DefaultArgs

InitHat ==
    /\ NoPlayback
    /\ NoImageCall
    /\ drawhat \in { [pc |-> "new", args |-> a, faces |-> <<>>,
                      image |-> CleanImage, raised |-> "none", done |-> 0,
                      hats |-> <<>>] :
                     a \in HatArgs }

(* DrawHat.__init__                                                        *)
HatInit ==
    /\ drawhat.pc = "new"
    /\ LET l == load_hat(drawhat.args)
       IN  drawhat' = [drawhat EXCEPT
                         !.pc = IF l.raised # "none" THEN "failed" ELSE "ready",
                         !.raised = l.raised]
    /\ UNCHANGED <<playback, imgcall>>

(* DrawHat.__call__ on an image with the faces the cascade finds in it.    *)
HatCall ==
    /\ drawhat.pc = "ready"
    /\ \E faces \in FaceLists :
         LET r == call_from(CleanImage, faces, 1, drawhat.args)
         IN  drawhat' = [drawhat EXCEPT !.pc = "called", !.faces = faces,
                                        !.image = r.image,
                                        !.raised = r.raised, !.done = r.done,
                                        !.hats = r.hats]
    /\ UNCHANGED <<playback, imgcall>>

NextHat == HatInit \/ HatCall

SpecHat == InitHat /\ [][NextHat]_vars

----------------------------------------------------------------------------
(* is_color_image and to_gray on 2-D images and on 3-D images of up to     *)
(* MaxChannels channels, every channel dark, medium or bright.             *)
Samples == {0, 128, 255}
ImageShapes == {<<2, 2>>} \cup {<<2, 2, c>> : c \in 1..MaxChannels}
Images ==
    UNION { { [id |-> 0, shape |-> s, px |-> p, scale |-> 1] :
                p \in [1..Channels(s) -> Samples] } : s \in ImageShapes }

InitGray ==
    /\ NoPlayback
    /\ NoDrawHat
    /\ imgcall \in { [pc |-> "new", frame |-> f, is_color |-> FALSE,
                      gray |-> NoneFrame, twice |-> NoneFrame] :
                     f \in Images }

(* self.is_color_image(frame)                                              *)
IsColorImage ==
    /\ imgcall.pc = "new"
    /\ imgcall' = [imgcall EXCEPT
                     !.pc = "classified",
                     !.is_color = is_color_image(imgcall.frame)]
    /\ UNCHANGED <<playback, drawhat>>

(* gray = self.to_gray(frame)                                              *)
ToGray ==
    /\ imgcall.pc = "classified"
    /\ imgcall' = [imgcall EXCEPT !.pc = "gray",
                                  !.gray = to_gray(imgcall.frame)]
    /\ UNCHANGED <<playback, drawhat>>

(* self.to_gray(gray)                                                      *)
ToGrayAgain ==
    /\ imgcall.pc = "gray"
    /\ imgcall' = [imgcall EXCEPT !.pc = "twice",
                                  !.twice = to_gray(imgcall.gray)]
    /\ UNCHANGED <<playback, drawhat>>

NextGray == IsColorImage \/ ToGray \/ ToGrayAgain

SpecGray == InitGray /\ [][NextGray]_vars

----------------------------------------------------------------------------
(* Inverter of functions.py: __init__(high) sets self.high = 255 and       *)
(* __call__(image) returns 255 - image.                                    *)
Highs == {200, 255}

Inverter_init(high) == 255

Inverter_call(self_high, image) ==
    [image EXCEPT !.px = [c \in DOMAIN image.px |-> 255 - image.px[c]]]

InitInvert ==
    /\ NoPlayback
    /\ NoDrawHat
    /\ imgcall \in { [pc |-> "new", high |-> h, self_high |-> 0, image |-> f,
                      result |-> NoneFrame] :
                     h \in Highs, f \in Images }

(* Inverter(high)                                                          *)
InverterInit ==
    /\ imgcall.pc = "new"
    /\ imgcall' = [imgcall EXCEPT !.pc = "ready",
                                  !.self_high = Inverter_init(imgcall.high)]
    /\ UNCHANGED <<playback, drawhat>>

(* Inverter(high)(image)                                                   *)
InverterCall ==
    /\ imgcall.pc = "ready"
    /\ imgcall' = [imgcall EXCEPT
                     !.pc = "called",
                     !.result = Inverter_call(imgcall.self_high,
                                              imgcall.image)]
    /\ UNCHANGED <<playback, drawhat>>

NextInvert == InverterInit \/ InverterCall

SpecInvert == InitInvert /\ [][NextInvert]_vars

----------------------------------------------------------------------------
TypeOK ==
    /\ pc \in {"init", "loop"}
    /\ event_source \in {None, "Timer"}
    /\ error \in {"none", "AttributeError", "TransformError", "TypeError",
                 "UnboundLocalError"}
    /\ frame_offset \in 0..2
    /\ Len(events) <= MaxEvents

----------------------------------------------------------------------------
(* Reading the event log.                                                  *)
LastEvt == events[Len(events)]
TimerBefore(i) == IF i = 1 THEN "Timer" ELSE events[i - 1].timer
SentBefore(i) == IF i = 1 THEN 0 ELSE events[i - 1].sent
EosBefore(i) == IF i = 1 THEN 0 ELSE events[i - 1].eos
EventSeen(evt) == \E i \in 1..Len(events) : events[i].evt = evt
OnlyTicks == \A i \in 1..Len(events) : events[i].evt = "tick"
EndOfStreamSeen == Len(Statuses(sink)) > 0
Finished == pc = "loop" /\ event_source = None /\ EndOfStreamSeen

(* Read attempts of __init__: one for print_info, one for determine_size   *)
(* on a capture without get.                                               *)
SetupReads ==
    (IF print_info_opt THEN 1 ELSE 0) + (IF capture.hasGet THEN 0 ELSE 1)
Skipped == IF SetupReads < capture.frames THEN SetupReads ELSE capture.frames
Remaining == capture.frames - Skipped

----------------------------------------------------------------------------
\* C1: a source the controller opened itself has been released exactly
\* once when the event sequence has seen end-of-stream or a close event.
C1_ReleasedExactlyOnce ==
    (pc = "loop" /\ capture.owned /\ (EndOfStreamSeen \/ EventSeen("close")))
        => capture.releases = 1

\* C2: the release of a source supplied by the caller is never invoked.
C2_SuppliedNeverReleased ==
    ~capture.owned => capture.releases = 0

\* C3 (as stated): with ticks only, a source of N frames gives N frames to
\* the figure, in source order, then one 'Finished.' status.
C3_AllFramesForwarded ==
    (pc = "loop" /\ OnlyTicks /\ event_source = None)
        => /\ Len(sink) = capture.frames + 1
           /\ \A i \in 1..Len(sink) :
                IF i <= capture.frames
                THEN sink[i].type = "frame" /\ sink[i].processed = i - 1
                ELSE sink[i].type = "status"

\* C3 (amended): with ticks only, the figure gets the frames that __init__
\* left in the source (N minus the frames read by print_info and by
\* determine_size), one per tick and in source order, then exactly one
\* 'Finished.' status, after which the timer is stopped.
C3_RemainingFramesForwarded ==
    (pc = "loop" /\ OnlyTicks)
        => /\ Len(sink) = Len(events)
           /\ Len(sink) <= Remaining + 1
           /\ \A i \in 1..Len(sink) :
                IF i <= Remaining
                THEN /\ sink[i].type = "frame"
                     /\ sink[i].original = Skipped + i - 1
                     /\ sink[i].processed = sink[i].original
                ELSE sink[i].type = "status"
           /\ (event_source = None) <=> (Len(sink) = Remaining + 1)

C3_Witness ==
    /\ pc = "loop" /\ OnlyTicks /\ event_source = None
    /\ capture.frames = 3 /\ Skipped = 1
    /\ Len(Frames(sink)) = 2 /\ Len(Statuses(sink)) = 1

\* C4: once the stream is exhausted and the timer stopped, no step restarts
\* the timer, reads from the source or sends anything to the figure.
C4_FinishedIsTerminal ==
    [][Finished => (/\ event_source' = None
                    /\ capture'.reads = capture.reads
                    /\ sink' = sink)]_vars

\* C5 (as stated): from Playing, two pause events in a row leave the timer
\* stopped.
C5_PauseIdempotent ==
    \A i \in 1..(Len(events) - 1) :
        (/\ events[i].evt = "pause"
         /\ events[i + 1].evt = "pause"
         /\ TimerBefore(i) = "Timer")
            => events[i + 1].timer = None

\* C5 (amended): the pause event toggles: handled in Playing it stops the
\* timer, and a second pause event right after it starts the timer again.
C5_PauseToggles ==
    \A i \in 1..Len(events) :
        (events[i].evt = "pause" /\ TimerBefore(i) = "Timer")
            => /\ events[i].timer = None
               /\ (i < Len(events) /\ events[i + 1].evt = "pause")
                    => events[i + 1].timer = "Timer"

C5_Witness ==
    /\ Len(events) = 3
    /\ events[1].evt = "tick" /\ events[1].timer = "Timer"
    /\ events[2].evt = "pause" /\ events[3].evt = "pause"
    /\ event_source = "Timer"

\* C6: a pause event handled in Playing stops the timer, and until the next
\* pause event (the resume) nothing is read from the source and no frame
\* reaches the figure.
C6_NoReadWhilePaused ==
    \A i \in 1..Len(events) :
        (events[i].evt = "pause" /\ TimerBefore(i) = "Timer")
            => /\ events[i].timer = None
               /\ \A j \in (i + 1)..Len(events) :
                    (\A k \in (i + 1)..j : events[k].evt # "pause")
                        => /\ events[j].reads = events[i].reads
                           /\ events[j].sent = events[i].sent
                           /\ events[j].timer = None

C6_Witness ==
    /\ Len(events) >= 3
    /\ events[1].evt = "tick" /\ events[1].sent = 1
    /\ events[2].evt = "pause" /\ events[2].timer = None
    /\ events[3].evt = "close"
    /\ capture.pos < capture.frames

\* C7: the indices of the frames given to the figure are consecutive, and
\* each is the position of its frame in the source, whatever pause events
\* come between the ticks.
C7_ConsecutiveIndices ==
    LET F == Frames(sink)
    IN  \A i \in 1..Len(F) :
            /\ F[i].frame_no = F[i].original
            /\ i > 1 => F[i].frame_no = F[i - 1].frame_no + 1

C7_Witness ==
    /\ Len(events) = 4
    /\ events[1].evt = "tick" /\ events[2].evt = "pause"
    /\ events[3].evt = "pause" /\ events[4].evt = "tick"
    /\ Len(Frames(sink)) = 2
    /\ frame_offset > 0

\* C8: the index of the first frame given to the figure is the number of
\* frames __init__ took from the source; frame_offset differs from that
\* number only when the source ran out during __init__, and then no frame
\* is ever shown.
C8_FirstIndexIsProbed ==
    pc = "loop"
        => /\ probed <= frame_offset
           /\ frame_offset = SetupReads
           /\ Frames(sink) # <<>>
                => /\ Frames(sink)[1].frame_no = probed
                   /\ frame_offset = probed

C8_Witness ==
    /\ pc = "loop"
    /\ print_info_opt /\ ~capture.hasGet
    /\ probed = 2
    /\ Frames(sink) # <<>>

\* C9: after a close event no step takes a frame from the source or gives
\* a frame to the figure.
C9_CloseStopsPlayback ==
    [][EventSeen("close") => (/\ capture'.pos = capture.pos
                              /\ Frames(sink') = Frames(sink))]_vars

\* C10: with a source that has no release, neither the end of the stream
\* nor a close event lets an exception out, and the tick that finds the
\* stream exhausted still stops the timer and sends 'Finished.'.
C10_MissingReleaseIsSilent ==
    ~capture.hasRelease
        => /\ error = "none"
           /\ capture.releases = 0
           /\ \A i \in 1..Len(events) :
                (events[i].evt = "tick" /\ events[i].sent = SentBefore(i))
                    => /\ events[i].timer = None
                       /\ events[i].eos = EosBefore(i) + 1

C10_Witness ==
    /\ ~capture.hasRelease
    /\ Len(events) = 3
    /\ events[1].evt = "tick" /\ events[1].sent = 1
    /\ events[2].evt = "close"
    /\ events[3].evt = "tick" /\ events[3].eos = 1
    /\ event_source = None

\* C11: once the function has raised in a tick, no later step reads from
\* the source or gives a frame to the figure (the error itself leaves the
\* tick and the frame it was raised on is not shown).
C11_TransformErrorHalts ==
    [][error = "TransformError"
        => (/\ capture'.reads = capture.reads
            /\ Frames(sink') = Frames(sink))]_vars

----------------------------------------------------------------------------
(* Annotations as passed to __init__, and the shapes drawn for them.       *)
Targets(i) ==
    {j \in 1..Len(args.annotations) : args.annotations[j].frame = i}
EffectiveShape(a) ==
    IF a.has_opts /\ a.shape # "absent" THEN a.shape
    ELSE args.annotations_default.shape
KnownShape(a) == EffectiveShape(a) \in {"RECT", "CIRC"}
AllKnownShapes ==
    \A j \in 1..Len(args.annotations) : KnownShape(args.annotations[j])
CenterX(p) == IF p.shape = "RECT" THEN p.xy[1] + (p.size[1] \div 2)
              ELSE p.xy[1]
ShapesFor(artists, a) ==
    {k \in 1..Len(artists) : /\ CenterX(artists[k]) = a.x
                             /\ artists[k].shape = EffectiveShape(a)}

\* C12: with annotations of the documented shapes, the shapes on the axes
\* after the tick for frame index i are exactly one per annotation whose
\* frame is i, and none for any other annotation.
C12_ShapesOfCurrentIndex ==
    (pc = "loop" /\ AllKnownShapes)
        => \A i \in 1..Len(sink) :
             sink[i].type = "frame"
                => /\ Len(sink[i].artists)
                        = Cardinality(Targets(sink[i].frame_no))
                   /\ \A j \in 1..Len(args.annotations) :
                        Cardinality(ShapesFor(sink[i].artists,
                                              args.annotations[j]))
                            = IF j \in Targets(sink[i].frame_no) THEN 1 ELSE 0
                   /\ i = Len(sink) => annotation_artists = sink[i].artists

C12_Witness ==
    /\ AllKnownShapes
    /\ Len(args.annotations) = 2
    /\ args.annotations[1].frame = 1 /\ args.annotations[2].frame = 1
    /\ args.annotations[1].shape # args.annotations[2].shape
    /\ Len(sink) = 3
    /\ sink[2].type = "frame" /\ sink[2].frame_no = 1
    /\ Len(sink[2].artists) = 2
    /\ sink[3].type = "frame" /\ Len(sink[3].artists) = 0

\* C13: a tick for a frame index that an annotation of an unknown shape
\* targets ends in an error, and the axes get no shape for that annotation.
C13_UnknownShapeIsError ==
    \A i \in 1..Len(sink) :
        (/\ sink[i].type \in {"frame", "aborted"}
         /\ \E j \in Targets(sink[i].frame_no) :
                ~KnownShape(args.annotations[j]))
            => /\ sink[i].type = "aborted"
               /\ Len(sink[i].artists)
                    <= Cardinality({j \in Targets(sink[i].frame_no) :
                                      KnownShape(args.annotations[j])})

----------------------------------------------------------------------------
(* The hat of face k as DrawHat places it, before any clipping.            *)
HatOf(k) == hat_size(drawhat.faces[k], drawhat.args)
DestY0(k) ==
    drawhat.faces[k].y - HatOf(k).hat_height + drawhat.args.y_offset
DestX0(k) == drawhat.faces[k].x + drawhat.args.x_offset
DestRows(k) == DestY0(k)..(DestY0(k) + HatOf(k).hat_height - 1)
DestCols(k) == DestX0(k)..(DestX0(k) + HatOf(k).hat_width - 1)
InsideFrame(k) ==
    /\ DestRows(k) \subseteq 0..(FrameSide - 1)
    /\ DestCols(k) \subseteq 0..(FrameSide - 1)
OutsideFrame(k) ==
    \/ DestRows(k) \cap 0..(FrameSide - 1) = {}
    \/ DestCols(k) \cap 0..(FrameSide - 1) = {}
StampsOf(p, k) ==
    {i \in 1..Len(drawhat.image[p]) : drawhat.image[p][i][1] = k}
Stamped(k) == {p \in Pixels : StampsOf(p, k) # {}}
Called == drawhat.pc = "called"
FaceIds == 1..Len(drawhat.faces)

\* C14: a hat whose destination lies inside the image is blended onto the
\* pixels of rows y0..y0+height-1 and columns x0..x0+width-1, with
\* x0 = x + x_offset and y0 = y - height + y_offset, each once and with the
\* hat pixel of the same place, and onto no other pixel.
C14_InsideChangesOnlyDestination ==
    Called =>
        \A k \in FaceIds :
            InsideFrame(k)
                => /\ Stamped(k) \subseteq DestRows(k) \X DestCols(k)
                   /\ drawhat.done >= k - 1
                        => /\ drawhat.done >= k
                           /\ Stamped(k) = DestRows(k) \X DestCols(k)
                           /\ \A p \in Stamped(k) :
                                {drawhat.image[p][i] : i \in StampsOf(p, k)}
                                    = {<<k, p[1] - DestY0(k), p[2] - DestX0(k)>>}

C14_Witness ==
    /\ Called
    /\ Len(drawhat.faces) = 2
    /\ InsideFrame(1) /\ InsideFrame(2)
    /\ drawhat.done = 2
    /\ Stamped(1) \cap Stamped(2) # {}
    /\ Stamped(1) \cup Stamped(2) # Pixels

\* C15: a hat whose destination starts m rows above the image (0 < m <
\* height) and meets the image's columns is blended from row 0 on, over
\* min(height - m, image height) rows, row r taking hat row r + m.
C15_ClippedAtTop ==
    Called =>
        \A k \in FaceIds :
            (/\ DestY0(k) < 0
             /\ 0 - DestY0(k) < HatOf(k).hat_height
             /\ DestCols(k) \cap 0..(FrameSide - 1) # {}
             /\ drawhat.done >= k - 1)
                => /\ drawhat.done >= k
                   /\ {p[1] : p \in Stamped(k)}
                        = {r \in 0..(FrameSide - 1) :
                             r < HatOf(k).hat_height + DestY0(k)}
                   /\ \A p \in Stamped(k) :
                        \A i \in StampsOf(p, k) :
                            drawhat.image[p][i][2] = p[1] - DestY0(k)

C15_Witness ==
    /\ Called
    /\ Len(drawhat.faces) = 1
    /\ DestY0(1) = 0 - 1
    /\ HatOf(1).hat_height = 2
    /\ drawhat.done = 1
    /\ Stamped(1) # {}

\* C16: a hat whose destination lies wholly outside the image is skipped:
\* the call raises nothing, blends nothing for that face and goes on to
\* the remaining faces.
C16_OutsideIsSkipped ==
    (Called /\ \E k \in FaceIds : OutsideFrame(k))
        => /\ drawhat.raised = "none"
           /\ drawhat.done = Len(drawhat.faces)
           /\ \A k \in FaceIds : OutsideFrame(k) => Stamped(k) = {}

\* C17: a DrawHat whose hat image cannot be read fails in __init__ with
\* ValueError; it never becomes ready and is never called.
C17_MissingHatFailsInit ==
    (drawhat.pc # "new" /\ ~drawhat.args.readable)
        => /\ drawhat.pc = "failed"
           /\ drawhat.raised = "ValueError"
           /\ drawhat.image = CleanImage

C17_Witness ==
    /\ drawhat.pc = "failed"
    /\ ~drawhat.args.readable

----------------------------------------------------------------------------
(* What the claims call a color frame and its luma.                        *)
ColorFrame(f) == Len(f.shape) >= 3 /\ f.shape[3] >= 3
Luma(f) ==
    [id |-> f.id, shape |-> <<f.shape[1], f.shape[2]>>,
     px |-> <<299 * f.px[1] + 587 * f.px[2] + 114 * f.px[3]>>,
     scale |-> 1000 * f.scale]

(* The colormap rule for one slot: given is the frame the slot is to show, *)
(* shown what set_data received, set the colormap set on this tick.        *)
SlotPolicy(cmap, given, shown, set) ==
    IF cmap # None
    THEN /\ set = None
         /\ shown = IF ColorFrame(given) THEN Luma(given) ELSE given
    ELSE IF ~ColorFrame(given)
    THEN set = "gray" /\ shown = given
    ELSE set = None /\ shown = given

\* C18: on every tick that shows a frame, each slot follows the colormap
\* rule on its own: with a colormap a color frame is shown as its luma and
\* any other frame as it is; without one a frame that is not color gets the
\* colormap gray and a color frame none, both shown as they are.
C18_SlotColorPolicy ==
    pc = "loop"
        => \A i \in 1..Len(sink) :
             sink[i].type = "frame"
                => /\ SlotPolicy(cmap_processed, sink[i].returned,
                                 sink[i].shown_processed,
                                 sink[i].set_cmap_processed)
                   /\ args.side_by_side
                        => SlotPolicy(cmap_original, sink[i].read,
                                      sink[i].shown_original,
                                      sink[i].set_cmap_original)

C18_Witness ==
    /\ args.side_by_side
    /\ cmap_original # None /\ cmap_processed = None
    /\ args.function.kind = "to2d"
    /\ Len(sink) = 2
    /\ sink[2].type = "frame"
    /\ Len(sink[2].read.shape) = 3 /\ sink[2].read.shape[3] = 4
    /\ sink[2].shown_original = Luma(sink[2].read)
    /\ sink[2].set_cmap_original = None
    /\ sink[2].shown_processed = sink[2].returned
    /\ sink[2].set_cmap_processed = "gray"

\* C19: is_color_image is true exactly for a frame with at least three
\* dimensions whose third dimension is at least 3; a 2-D frame and a frame
\* with one or two channels are not color.
C19_ColorIffThreeChannels ==
    imgcall.pc \in {"classified", "gray", "twice"}
        => LET shape == imgcall.frame.shape
           IN  /\ imgcall.is_color <=> (Len(shape) >= 3 /\ shape[3] >= 3)
               /\ Len(shape) = 2 => ~imgcall.is_color
               /\ (Len(shape) = 3 /\ shape[3] \in {1, 2})
                    => ~imgcall.is_color

C19_Witness ==
    /\ imgcall.pc = "classified"
    /\ Len(imgcall.frame.shape) = 3
    /\ imgcall.frame.shape[3] = 2
    /\ ~imgcall.is_color

\* C20: to_gray returns a frame that is not color unchanged, and to_gray of
\* to_gray of any frame equals to_gray of that frame.
C20_ToGrayIdempotent ==
    /\ imgcall.pc \in {"gray", "twice"}
        => (~imgcall.is_color => imgcall.gray = imgcall.frame)
    /\ imgcall.pc = "twice" => imgcall.twice = imgcall.gray

C20_Witness ==
    /\ imgcall.pc = "twice"
    /\ imgcall.is_color
    /\ imgcall.gray # imgcall.frame
    /\ imgcall.gray.px = <<299 * 255 + 587 * 128>>
    /\ imgcall.twice = imgcall.gray

\* C21: the function is called on a copy of the frame in both views, so
\* after every draw the array that the source returned still holds the
\* frame as the source delivered it, whatever the function does to its
\* argument.
C21_TransformGetsCopy ==
    pc = "loop"
        => \A i \in 1..Len(sink) :
             sink[i].type = "frame"
                => sink[i].acquired
                     = SourceFrame(sink[i].original, capture.shape)

\* C22: an Inverter made with high = h returns an image of the same shape
\* in which every value v has become h - v.
C22_InverterSubtractsFromHigh ==
    imgcall.pc = "called"
        => /\ imgcall.result.shape = imgcall.image.shape
           /\ DOMAIN imgcall.result.px = DOMAIN imgcall.image.px
           /\ \A c \in DOMAIN imgcall.image.px :
                imgcall.result.px[c] = imgcall.high - imgcall.image.px[c]

(* Annotation j of the stored list is annotation x / 10 of the argument.   *)
Stored == 1..Len(annotations)

\* C23: whatever the order of the annotations argument, self.annotations
\* holds the same annotations in ascending frame order, those of the same
\* frame in the order of the argument; so no annotation of a frame stands
\* behind one of a later frame, where the scan of annotate would have left,
\* and every annotation of the frame drawn gets its shape.
C23_StoredSortedStable ==
    pc = "loop"
        => /\ Len(annotations) = Len(args.annotations)
           /\ {annotations[k] : k \in Stored}
                = {args.annotations[j] : j \in 1..Len(args.annotations)}
           /\ \A k \in Stored : \A l \in Stored :
                k < l => /\ annotations[k].frame <= annotations[l].frame
                         /\ annotations[k].frame = annotations[l].frame
                              => annotations[k].x < annotations[l].x
           /\ AllKnownShapes
                => \A i \in 1..Len(sink) :
                     sink[i].type = "frame"
                        => \A j \in Targets(sink[i].frame_no) :
                             ShapesFor(sink[i].artists, args.annotations[j])
                                # {}

C23_Witness ==
    /\ pc = "loop"
    /\ AllKnownShapes
    /\ Len(args.annotations) = 2
    /\ args.annotations[1].frame = 2 /\ args.annotations[2].frame = 1
    /\ annotations[1].frame = 1 /\ annotations[2].frame = 2
    /\ Len(sink) = 3
    /\ sink[2].type = "frame" /\ sink[2].frame_no = 1
    /\ Len(sink[2].artists) = 1
    /\ sink[3].type = "frame" /\ sink[3].frame_no = 2
    /\ Len(sink[3].artists) = 1

\* C24: after every tick, the one that finds the stream exhausted included,
\* the axes hold no shape of an annotation of another frame index than the
\* tick's: what earlier ticks drew is gone.
C24_EarlierShapesDiscarded ==
    (pc = "loop" /\ AllKnownShapes)
        => \A i \in 1..Len(sink) :
             sink[i].type \in {"frame", "status"}
                => \A j \in 1..Len(args.annotations) :
                     args.annotations[j].frame # sink[i].frame_no
                        => ShapesFor(sink[i].artists, args.annotations[j])
                             = {}

(* The faces whose hat was resized, and the size cv2.resize was given.     *)
Resized == 1..Len(drawhat.hats)

\* C25: the resized hat's width is the face width times w_offset rounded
\* to the nearest integer, and its height is that width times the hat
\* image's height / width.
C25_WidthRoundedToNearest ==
    Called =>
        \A k \in Resized :
            LET h == drawhat.hats[k]
                t == drawhat.args.template
            IN  /\ 2 * Abs(10 * h.hat_width
                           - drawhat.faces[k].w * drawhat.args.w_offset) <= 10
                /\ Abs(h.hat_height * t[2] - h.hat_width * t[1]) < t[2]

\* C25, as the code has it: the resized hat's width is the face width times
\* w_offset with the fraction dropped, and its height is that width times
\* the hat image's height / width with the fraction dropped.
C25_WidthTruncated ==
    Called =>
        \A k \in Resized :
            LET h == drawhat.hats[k]
                t == drawhat.args.template
                exact == drawhat.faces[k].w * drawhat.args.w_offset
            IN  /\ 10 * h.hat_width <= exact
                /\ exact < 10 * h.hat_width + 10
                /\ h.hat_height * t[2] <= h.hat_width * t[1]
                /\ h.hat_width * t[1] < h.hat_height * t[2] + t[2]

C25_Witness ==
    /\ Called
    /\ drawhat.args.w_offset = 13
    /\ drawhat.args.template = <<3, 2>>
    /\ Len(drawhat.hats) = 2
    /\ drawhat.faces[1].w = 2
    /\ drawhat.hats[1].hat_width = 2 /\ drawhat.hats[1].hat_height = 3
    /\ drawhat.faces[2].w = 1
    /\ drawhat.hats[2].hat_width = 1 /\ drawhat.hats[2].hat_height = 1

(* The color an annotation asks for: its own, else the default.            *)
AskedColor(a) ==
    IF a.has_opts /\ a.color # Absent THEN a.color
    ELSE args.annotations_default.color

\* C26: the edge color of every shape drawn for an annotation is the color
\* asked for, its own or the default, as it is when that is a sequence (a
\* tuple or a string) and three times the value when it is a single value.
C26_ScalarColorExpanded ==
    pc = "loop"
        => \A i \in 1..Len(sink) :
             sink[i].type = "frame"
                => \A j \in Targets(sink[i].frame_no) :
                     \A k \in ShapesFor(sink[i].artists, args.annotations[j]) :
                        LET asked == AskedColor(args.annotations[j])
                        IN  sink[i].artists[k].ec
                              = IF asked.kind = "scalar"
                                THEN [kind |-> "tuple",
                                      v |-> <<asked.v[1], asked.v[1],
                                              asked.v[1]>>]
                                ELSE asked

C26_Witness ==
    /\ pc = "loop"
    /\ Len(sink) >= 2
    /\ sink[2].type = "frame"
    /\ Len(sink[2].artists) = 2
    /\ sink[2].artists[1].ec = [kind |-> "tuple", v |-> <<128, 128, 128>>]
    /\ sink[2].artists[2].ec = [kind |-> "tuple", v |-> <<64, 64, 64>>]
    /\ args.annotations[1].color = [kind |-> "scalar", v |-> <<128>>]
    /\ ~args.annotations[2].has_opts
    /\ args.annotations_default.color = [kind |-> "scalar", v |-> <<64>>]

\* C27: once the controller has called release on the source, at the end
\* of the stream or in the close handler, no tick, pause or close event
\* makes it call read on that source again.
C27_NoReadAfterRelease ==
    [][capture.releases > 0 => capture'.reads = capture.reads]_vars

\* C28: for every face whose hat meets the image, clipped on whatever
\* edges, the part of the hat that is used and the part of the image that
\* is written have the same number of rows and of columns, no bound is
\* negative, the image part lies inside the image, and the blend goes
\* through.
C28_ClippedRegionsAgree ==
    Called =>
        \A k \in Resized :
            ~OutsideFrame(k)
                => LET h == drawhat.hats[k]
                   IN  /\ h.hat_bottom - h.hat_top = h.y1 - h.y0
                       /\ h.hat_right - h.hat_left = h.x1 - h.x0
                       /\ h.hat_top >= 0 /\ h.hat_left >= 0
                       /\ h.hat_bottom >= 0 /\ h.hat_right >= 0
                       /\ 0 <= h.y0 /\ h.y0 <= h.y1 /\ h.y1 <= FrameSide
                       /\ 0 <= h.x0 /\ h.x0 <= h.x1 /\ h.x1 <= FrameSide
                       /\ drawhat.done >= k

C28_Witness ==
    /\ Called
    /\ Len(drawhat.hats) = 1
    /\ ~OutsideFrame(1)
    /\ drawhat.hats[1].hat_top > 0
    /\ drawhat.hats[1].hat_bottom < drawhat.hats[1].hat_height
    /\ drawhat.hats[1].hat_right < drawhat.hats[1].hat_width
    /\ drawhat.done = 1
    /\ Stamped(1) = Pixels

====
